---- MODULE Spec2Model ----
(***************************************************************************)
(* Frame presentation pipeline of the Vulkan triangle renderer             *)
(* (src/src/HelloTriangle.cpp): mainLoop, drawFrame, recreateSwapChain,    *)
(* cleanupSwapChain, createSwapChain and chooseSwapExtent, with the GPU    *)
(* and the window system as concurrent environments.                      *)
(*                                                                         *)
(* The control thread is a program counter `pc` over the statements of     *)
(* mainLoop / drawFrame / recreateSwapChain that call the driver or the    *)
(* window system.  The GPU completes submitted command buffers on its own  *)
(* (GpuComplete); the window system changes the window size and queues a   *)
(* framebuffer-size event that glfwPollEvents / glfwWaitEvents deliver.    *)
(***************************************************************************)
EXTENDS Integers, Naturals, Sequences, FiniteSets, TLC

(***************************************************************************)
(* Program constants and bounds                                            *)
(***************************************************************************)
\* const int MAX_FRAMES_IN_FLIGHT = 2;
MAX_FRAMES_IN_FLIGHT == 2

\* std::numeric_limits<uint32_t>::max(), the "undefined" currentExtent.  The
\* model's unsigned words are 16 bits wide (TLC's integers are 32-bit signed),
\* so the all-ones word is 65535.
UINT32_MAX == 65535

\* Largest window / surface dimension of the model (pixels are abstract).
MaxDim == 1

\* Largest minImageCount a surface reports in the model.
MaxMinImages == 2

\* Largest extent component of the surface capabilities and window sizes that
\* chooseSwapExtent is applied to on its own (specification SpecExtent).
MaxExtent == 2

\* Longest list of surface formats and longest list of present modes that
\* chooseSwapSurfaceFormat and chooseSwapPresentMode are applied to on their
\* own, and largest minImageCount / maxImageCount the image count is computed
\* for (specification SpecChoose).
MaxFormats == 3
MaxPresentModes == 2
MaxImageCount == 3

Slots == 0 .. (MAX_FRAMES_IN_FLIGHT - 1)
Dims  == 0 .. MaxDim
Sizes == [w : Dims, h : Dims]

Extent(w, h) == [w |-> w, h |-> h]

(***************************************************************************)
(* VkResult values the three driver calls of drawFrame can return.         *)
(* VK_ERROR_DEVICE_LOST stands for every error code, VK_NOT_READY for the  *)
(* non-error status codes that are neither success nor an invalidation.    *)
(***************************************************************************)
AcquireResults == {"VK_SUCCESS", "VK_SUBOPTIMAL_KHR", "VK_ERROR_OUT_OF_DATE_KHR",
                   "VK_ERROR_DEVICE_LOST", "VK_NOT_READY"}
SubmitResults  == {"VK_SUCCESS", "VK_ERROR_DEVICE_LOST"}
PresentResults == {"VK_SUCCESS", "VK_SUBOPTIMAL_KHR", "VK_ERROR_OUT_OF_DATE_KHR",
                   "VK_ERROR_DEVICE_LOST"}
CreateResults  == {"VK_SUCCESS", "VK_ERROR_OUT_OF_DEVICE_MEMORY"}

VARIABLES
    pc,                    \* position of the control thread
    rcFrom,                \* call site of the running recreateSwapChain
    currentFrame,          \* HelloTriangle::currentFrame
    framebufferResized,    \* HelloTriangle::framebufferResized
    result,                \* drawFrame's local VkResult
    imageIndex,            \* drawFrame's local imageIndex
    width, height,         \* recreateSwapChain's locals
    inFlightFences,        \* slot -> fence is signaled
    executing,             \* slot -> the slot's submission is pending on the GPU
    window,                \* framebuffer size of the window
    resizePending,         \* a framebuffer-size event is queued, not yet delivered
    shouldClose,           \* glfwWindowShouldClose(window)
    swapChainSupport,      \* capabilities queried by the last createSwapChain
    swapChain,             \* "live" | "destroyed"
    swapChainImages,       \* number of swapchain images
    swapChainExtent,       \* HelloTriangle::swapChainExtent
    swapChainImageViews,   \* [size, live]
    swapChainFramebuffers, \* [size, live, extent]
    what,                  \* message of the std::runtime_error thrown, or "none"
    iter,                  \* history of the current / last drawFrame iteration
    formats,               \* swapChainSupport.formats: the surface's format list
    presentModes,          \* swapChainSupport.presentModes: the surface's mode list
    createInfo,            \* the VkSwapchainCreateInfoKHR of the last createSwapChain
    swapChainImageFormat,  \* HelloTriangle::swapChainImageFormat
    builtFor,              \* window framebuffer size the last createSwapChain saw
    objects,               \* object -> "none" | "live" | "destroyed"
    imageAvailableSemaphores, \* slot -> "unsignaled" | "pending" | "signaled"
    renderFinishedSemaphores, \* slot -> "unsignaled" | "signaled"
    colorOutput,           \* slot -> the submission writes the color attachment
    presentQueue,          \* slot -> a present request waits for the slot's semaphore
    presented,             \* slot -> the image of the slot's frame was read for display
    stalePresent,          \* slot -> a present request of an earlier frame of the
                           \*         slot still waits for the slot's semaphore
    everSubmitted          \* slot -> vkQueueSubmit has succeeded with the slot

\* What the surface reports besides its capabilities.
surfaceVars == <<formats, presentModes>>

\* What createSwapChain leaves besides the swapchain members above.
chainVars == <<createInfo, swapChainImageFormat, builtFor>>

\* The GPU-side state of the frame slots.
gpuVars == <<imageAvailableSemaphores, renderFinishedSemaphores, colorOutput,
             presentQueue, presented, stalePresent, everSubmitted>>

vars == <<pc, rcFrom, currentFrame, framebufferResized, result, imageIndex,
          width, height, inFlightFences, executing, window, resizePending,
          shouldClose, swapChainSupport, swapChain, swapChainImages,
          swapChainExtent, swapChainImageViews, swapChainFramebuffers,
          what, iter, formats, presentModes, createInfo, swapChainImageFormat,
          builtFor, objects, imageAvailableSemaphores, renderFinishedSemaphores,
          colorOutput, presentQueue, presented, stalePresent, everSubmitted>>

(***************************************************************************)
(* Pure functions of swapchain construction                                *)
(***************************************************************************)
\* std::clamp(v, lo, hi) as it is computed when lo <= hi.
Clamp(v, lo, hi) == IF v < lo THEN lo ELSE IF hi < v THEN hi ELSE v

\* std::clamp is undefined when hi < lo: any of its three operands may come out.
ClampOutcomes(v, lo, hi) == IF hi < lo THEN {lo, hi, v} ELSE {Clamp(v, lo, hi)}

\* A swapchain extent that ignores the surface's limits (used to test C10).
chooseSwapExtentUnclamped(capabilities, fb) ==
    IF capabilities.currentExtent.w # UINT32_MAX
    THEN {capabilities.currentExtent}
    ELSE {fb}

\* chooseSwapExtent: the set of extents the call can return for the given
\* capabilities and window framebuffer size (a singleton unless std::clamp
\* is called with min > max).
chooseSwapExtent(capabilities, fb) ==
    IF capabilities.currentExtent.w # UINT32_MAX
    THEN {capabilities.currentExtent}
    ELSE {Extent(w, h) :
            w \in ClampOutcomes(fb.w, capabilities.minImageExtent.w,
                                      capabilities.maxImageExtent.w),
            h \in ClampOutcomes(fb.h, capabilities.minImageExtent.h,
                                      capabilities.maxImageExtent.h)}

\* The requested image count without the cap (used to test C11).
ImageCountUncapped(capabilities) ==
    (capabilities.minImageCount + 1) % (UINT32_MAX + 1)

\* One image more than the swapchain before had (used to test C14).
ImageCountOneMore(capabilities) == swapChainImages + 1

\* createSwapChain's image count: minImageCount + 1 (uint32_t), capped by a
\* non-zero maxImageCount.
ImageCount(capabilities) ==
    LET imageCount == (capabilities.minImageCount + 1) % (UINT32_MAX + 1)
    IN  IF capabilities.maxImageCount > 0 /\ imageCount > capabilities.maxImageCount
        THEN capabilities.maxImageCount
        ELSE imageCount

UndefinedExtent == Extent(UINT32_MAX, UINT32_MAX)

\* VkSurfaceFormatKHR values: the preferred pair and pairs that differ from it
\* in the format, in the color space, or in both.
VkSurfaceFormats ==
    [format     : {"VK_FORMAT_B8G8R8A8_SRGB", "VK_FORMAT_B8G8R8A8_UNORM"},
     colorSpace : {"VK_COLOR_SPACE_SRGB_NONLINEAR_KHR",
                   "VK_COLOR_SPACE_DISPLAY_P3_NONLINEAR_EXT"}]

\* VkPresentModeKHR values.
VkPresentModes == {"VK_PRESENT_MODE_IMMEDIATE_KHR", "VK_PRESENT_MODE_MAILBOX_KHR",
                   "VK_PRESENT_MODE_FIFO_KHR"}

\* The std::vectors over S with lo to hi elements.
Vectors(S, lo, hi) == UNION {[1 .. n -> S] : n \in lo .. hi}

\* if(availableFormat.format == VK_FORMAT_B8G8R8A8_SRGB &&
\*    availableFormat.colorSpace == VK_COLOR_SPACE_SRGB_NONLINEAR_KHR)
IsPreferredFormat(availableFormat) ==
    /\ availableFormat.format = "VK_FORMAT_B8G8R8A8_SRGB"
    /\ availableFormat.colorSpace = "VK_COLOR_SPACE_SRGB_NONLINEAR_KHR"

\* The first listed format whatever the list holds (used to test C13).
chooseSwapSurfaceFormatFirst(availableFormats) ==
    IF Len(availableFormats) = 0 THEN VkSurfaceFormats ELSE {availableFormats[1]}

\* The range-for of chooseSwapSurfaceFormat from element k on, and the
\* `return availableFormats[0]` after it; indexing an empty vector is
\* undefined and may yield any format.
RECURSIVE chooseSwapSurfaceFormatFrom(_, _)
chooseSwapSurfaceFormatFrom(availableFormats, k) ==
    IF k > Len(availableFormats)
    THEN IF Len(availableFormats) = 0 THEN VkSurfaceFormats ELSE {availableFormats[1]}
    ELSE IF IsPreferredFormat(availableFormats[k])
         THEN {availableFormats[k]}
         ELSE chooseSwapSurfaceFormatFrom(availableFormats, k + 1)

\* chooseSwapSurfaceFormat: the set of formats the call can return (a
\* singleton for a non-empty list).
chooseSwapSurfaceFormat(availableFormats) ==
    chooseSwapSurfaceFormatFrom(availableFormats, 1)

\* Mailbox only when it is listed first (used to test C12).
chooseSwapPresentModeFirst(availablePresentModes) ==
    IF /\ Len(availablePresentModes) > 0
       /\ availablePresentModes[1] = "VK_PRESENT_MODE_MAILBOX_KHR"
    THEN "VK_PRESENT_MODE_MAILBOX_KHR"
    ELSE "VK_PRESENT_MODE_FIFO_KHR"

\* The range-for of chooseSwapPresentMode from element k on, and the
\* `return VK_PRESENT_MODE_FIFO_KHR` after it.
RECURSIVE chooseSwapPresentModeFrom(_, _)
chooseSwapPresentModeFrom(availablePresentModes, k) ==
    IF k > Len(availablePresentModes)
    THEN "VK_PRESENT_MODE_FIFO_KHR"
    ELSE IF availablePresentModes[k] = "VK_PRESENT_MODE_MAILBOX_KHR"
         THEN availablePresentModes[k]
         ELSE chooseSwapPresentModeFrom(availablePresentModes, k + 1)

chooseSwapPresentMode(availablePresentModes) ==
    chooseSwapPresentModeFrom(availablePresentModes, 1)

\* The fields of VkSwapchainCreateInfoKHR that createSwapChain computes.
SwapchainCreateInfo(surfaceFormat, presentMode, extent, imageCount) ==
    [minImageCount   |-> imageCount,
     imageFormat     |-> surfaceFormat.format,
     imageColorSpace |-> surfaceFormat.colorSpace,
     imageExtent     |-> extent,
     presentMode     |-> presentMode]

\* VkSwapchainCreateInfoKHR createInfo{} before its fields are set.
NoCreateInfo ==
    [minImageCount   |-> 0,
     imageFormat     |-> "VK_FORMAT_UNDEFINED",
     imageColorSpace |-> "VK_COLOR_SPACE_SRGB_NONLINEAR_KHR",
     imageExtent     |-> Extent(0, 0),
     presentMode     |-> "VK_PRESENT_MODE_IMMEDIATE_KHR"]

\* SwapChainSupportDetails::capabilities before the surface was queried.
NoCapabilities ==
    [currentExtent  |-> Extent(0, 0), minImageExtent |-> Extent(0, 0),
     maxImageExtent |-> Extent(0, 0), minImageCount  |-> 0, maxImageCount |-> 0]

\* The format and mode lists the surface of the selected device reports:
\* isDeviceSuitable accepted a device with neither list empty.  The preferred
\* format and the mailbox mode are listed, neither of them first.
DeviceFormats ==
    << [format |-> "VK_FORMAT_B8G8R8A8_UNORM",
        colorSpace |-> "VK_COLOR_SPACE_SRGB_NONLINEAR_KHR"],
       [format |-> "VK_FORMAT_B8G8R8A8_SRGB",
        colorSpace |-> "VK_COLOR_SPACE_SRGB_NONLINEAR_KHR"] >>

DevicePresentModes == <<"VK_PRESENT_MODE_FIFO_KHR", "VK_PRESENT_MODE_MAILBOX_KHR">>

\* The extent of framebuffers that do not exist: no real extent has a
\* negative component.
NoExtent == [w |-> -1, h |-> -1]

\* What vkGetPhysicalDeviceSurfaceCapabilitiesKHR can report for a window of
\* framebuffer size fb.  Two kinds of surface are modelled: one whose only
\* extent is the window's size and whose image count is not capped
\* (maxImageCount = 0), and one that leaves the extent to the swapchain (the
\* sentinel) within [1, MaxDim] and caps the image count at its minimum.
SurfaceCaps(fb) ==
    { [currentExtent  |-> fb, minImageExtent |-> fb, maxImageExtent |-> fb,
       minImageCount  |-> MaxMinImages, maxImageCount |-> 0],
      [currentExtent  |-> UndefinedExtent, minImageExtent |-> Extent(1, 1),
       maxImageExtent |-> Extent(MaxDim, MaxDim),
       minImageCount  |-> MaxMinImages, maxImageCount |-> MaxMinImages] }

(***************************************************************************)
(* Decisions of drawFrame                                                  *)
(***************************************************************************)
\* Acquire also treats suboptimal as a reason to rebuild (used to test C8).
AcquireNeedsRebuildAlsoSuboptimal(r) ==
    r \in {"VK_ERROR_OUT_OF_DATE_KHR", "VK_SUBOPTIMAL_KHR"}

\* if(result == VK_ERROR_OUT_OF_DATE_KHR) after vkAcquireNextImageKHR
AcquireNeedsRebuild(r) == r = "VK_ERROR_OUT_OF_DATE_KHR"

\* The fatal branch after acquire is never taken (used to test C20).
AcquireIsFatalNever(r) == FALSE

\* else if(result != VK_SUCCESS && result != VK_SUBOPTIMAL_KHR)
AcquireIsFatal(r) == r # "VK_SUCCESS" /\ r # "VK_SUBOPTIMAL_KHR"

\* Present does not read the resize flag (used to test C25).
PresentNeedsRebuildIgnoresResize(r, resized) ==
    r = "VK_ERROR_OUT_OF_DATE_KHR" \/ r = "VK_SUBOPTIMAL_KHR"

\* Present forgets the suboptimal code (used to test C7).
PresentNeedsRebuildNoSuboptimal(r, resized) ==
    r = "VK_ERROR_OUT_OF_DATE_KHR" \/ resized

\* if(result == VK_ERROR_OUT_OF_DATE_KHR || result == VK_SUBOPTIMAL_KHR ||
\*    framebufferResized) after vkQueuePresentKHR
PresentNeedsRebuild(r, resized) ==
    r = "VK_ERROR_OUT_OF_DATE_KHR" \/ r = "VK_SUBOPTIMAL_KHR" \/ resized

\* else if(result != VK_SUCCESS)
PresentIsFatal(r) == r # "VK_SUCCESS"

\* The cursor wraps at the number of swapchain images (used to test C5).
NextFrameByImages(c) == (c + 1) % swapChainImages

\* The cursor stays (used to test C4).
NextFrameStays(c) == c

\* currentFrame = (currentFrame + 1) % MAX_FRAMES_IN_FLIGHT
NextFrame(c) == (c + 1) % MAX_FRAMES_IN_FLIGHT

\* The fence wait returns at once (used to test C1).
FenceWaitReturnsAtOnce(i) == TRUE

\* vkWaitForFences(device, 1, &inFlightFences[i], VK_TRUE, UINT64_MAX)
\* returns when the fence is signaled.
FenceWaitReturns(i) == inFlightFences[i]

\* Every recreateSwapChain ends drawFrame (used to test C3).
AfterRecreateAlwaysReturns(from) == "loop"

\* Every recreateSwapChain falls through to the cursor (used to test C2).
AfterRecreateNeverReturns(from) == "advance"

\* Where drawFrame goes on after recreateSwapChain(): the call in the acquire
\* branch is followed by `return`, the call in the present branch falls
\* through to the cursor advance.
AfterRecreate(from) == IF from = "acquire" THEN "loop" ELSE "advance"

\* The slot's number is taken for the image's (used to test C26).
FramebufferIndexIsSlot(image_index) == currentFrame

\* renderPassInfo.framebuffer = swapChainFramebuffers[image_index] in
\* recordCommandBuffer(command_buffer, image_index)
FramebufferIndex(image_index) == image_index

\* The submission does not wait for the image (used to test C17).
ColorOutputBeginsAtOnce(i) == TRUE

\* submitInfo.pWaitSemaphores = {imageAvailableSemaphores[i]} with
\* pWaitDstStageMask = COLOR_ATTACHMENT_OUTPUT: the color-attachment-output
\* stage of the submission begins once the semaphore is signaled.
ColorOutputMayBegin(i) == imageAvailableSemaphores[i] = "signaled"

\* presentInfo.pWaitSemaphores = signalSemaphores
\* (= {renderFinishedSemaphores[i]}): the present request is executed once
\* the semaphore is signaled.
PresentMayExecute(i) == renderFinishedSemaphores[i] = "signaled"

\* The device-idle wait is a wait for the current slot (used to test C22).
DeviceWaitIdleReturnsForSlot == ~executing[currentFrame]

\* The device-idle wait returns at once (used to test C18).
DeviceWaitIdleReturnsAtOnce == TRUE

\* vkDeviceWaitIdle(device) returns when no submission is pending.  (Whether
\* it also waits for queued present requests does not matter to the program:
\* it reads nothing that they change.)
DeviceWaitIdleReturns == \A i \in Slots : ~executing[i]

\* The minimization loop stops when one dimension is non-zero (used to test C9).
IsMinimizedBothZero(w, h) == w = 0 /\ h = 0

\* while(width == 0 || height == 0)
IsMinimized(w, h) == w = 0 \/ h = 0

(***************************************************************************)
(* History of one drawFrame iteration (not program state)                  *)
(***************************************************************************)
\* The swapchain recorded by an iteration that has rebuilt nothing.
NoRebuild ==
    [capabilities |-> NoCapabilities, formats |-> << >>,
     presentModes |-> << >>, window |-> NoExtent,
     createInfo |-> NoCreateInfo, images |-> 0,
     format |-> "VK_FORMAT_UNDEFINED", extent |-> NoExtent,
     views |-> 0, framebuffers |-> 0]

FreshIter(start) ==
    [start |-> start, acquire |-> "none", present |-> "none",
     reset |-> FALSE, recorded |-> FALSE,
     submitted |-> FALSE, presented |-> FALSE, invalidated |-> FALSE,
     blocked |-> FALSE, sized |-> FALSE, rebuilt |-> FALSE, exit |-> "running",
     before |-> NoRebuild, image |-> -1, framebuffer |-> -1]

NoIter == [FreshIter(0) EXCEPT !.exit = "none"]

\* The swapchain as the frame loop sees it: what it was built from and what
\* was built.
Chain ==
    [capabilities |-> swapChainSupport, formats |-> formats,
     presentModes |-> presentModes, window |-> builtFor,
     createInfo |-> createInfo, images |-> swapChainImages,
     format |-> swapChainImageFormat, extent |-> swapChainExtent,
     views |-> swapChainImageViews.size,
     framebuffers |-> swapChainFramebuffers.size]

\* The exception is caught inside run() and the frame loop goes on (used to
\* test C15).
ThrowCaught(msg, it) ==
    /\ pc' = "loop"
    /\ what' = msg
    /\ iter' = [it EXCEPT !.exit = "returned"]

\* throw std::runtime_error(msg): leaves drawFrame, mainLoop and run.
Throw(msg, it) ==
    /\ pc' = "fatal"
    /\ what' = msg
    /\ iter' = [it EXCEPT !.exit = "thrown"]

(***************************************************************************)
(* Initial state: initWindow has run, initVulkan has created the device    *)
(***************************************************************************)
\* The swapchain, its views and framebuffers as createSwapChain,
\* createImageViews and createFramebuffers leave them for capabilities caps
\* and extent e.
Built(caps, e) ==
    /\ swapChainSupport = caps
    /\ swapChain = "live"
    /\ swapChainImages = ImageCount(caps)
    /\ swapChainImageViews = [size |-> ImageCount(caps), live |-> ImageCount(caps)]
    /\ swapChainFramebuffers.size = ImageCount(caps)
    /\ swapChainFramebuffers.live = ImageCount(caps)
    /\ swapChainFramebuffers.extent = e
    /\ swapChainExtent = e

\* The cursor's initial value.  The member's declaration is not in
\* src/include/HelloTriangle.h; the cursor is "an integer in [0, F)" and the
\* model starts it at the first slot.
InitialFrame == 0

\* The objects of the device besides the swapchain's.
SyncObjects == {"imageAvailableSemaphores", "renderFinishedSemaphores",
                "inFlightFences"}
ObjectNames == {"device", "renderPass", "graphicsPipeline", "commandPool",
                "commandBuffers"} \cup SyncObjects

\* The members and the environment when initVulkan calls createSwapChain:
\* the device exists, nothing else was created, no frame was drawn, nothing
\* was submitted.
ProgramStart ==
    /\ rcFrom = "none"
    /\ currentFrame = InitialFrame
    /\ framebufferResized = FALSE
    /\ result = "none"
    /\ imageIndex = 0
    /\ width = 0
    /\ height = 0
    /\ inFlightFences = [i \in Slots |-> FALSE]
    /\ executing = [i \in Slots |-> FALSE]
    /\ resizePending = FALSE
    /\ shouldClose = FALSE
    /\ what = "none"
    /\ iter = NoIter
    /\ createInfo = NoCreateInfo
    /\ swapChainImageFormat = "VK_FORMAT_UNDEFINED"
    /\ builtFor = NoExtent
    /\ objects = [o \in ObjectNames |-> IF o = "device" THEN "live" ELSE "none"]
    /\ imageAvailableSemaphores = [i \in Slots |-> "unsignaled"]
    /\ renderFinishedSemaphores = [i \in Slots |-> "unsignaled"]
    /\ colorOutput = [i \in Slots |-> FALSE]
    /\ presentQueue = [i \in Slots |-> FALSE]
    /\ presented = [i \in Slots |-> FALSE]
    /\ stalePresent = [i \in Slots |-> FALSE]
    /\ everSubmitted = [i \in Slots |-> FALSE]

\* No swapchain was created yet.
NoChain ==
    /\ swapChainSupport = NoCapabilities
    /\ swapChain = "none"
    /\ swapChainImages = 0
    /\ swapChainExtent = NoExtent
    /\ swapChainImageViews = [size |-> 0, live |-> 0]
    /\ swapChainFramebuffers = [size |-> 0, live |-> 0, extent |-> NoExtent]

Init ==
    /\ pc = "initCreateSwapChain"
    /\ ProgramStart
    /\ NoChain
    /\ window \in {s \in Sizes : s.w > 0 /\ s.h > 0}
    /\ formats = DeviceFormats
    /\ presentModes = DevicePresentModes

(***************************************************************************)
(* Environment: the window system and the GPU                              *)
(***************************************************************************)
\* The statements at which the program observes the window: the event
\* processing of glfwPollEvents and glfwWaitEvents and the size queries of
\* recreateSwapChain and createSwapChain.
Observing == pc \in {"poll", "rcSize", "rcMinimized", "rcCreateSwapChain"}

\* The user resizes, minimizes or restores the window; the framebuffer-size
\* callback is queued until the program processes events.  A resize at any
\* moment shows to the program as a resize right before its next observation
\* of the window, so the model lets the window change only there.
WindowResize ==
    /\ Observing
    /\ \E s \in Sizes : s # window /\ window' = s
    /\ resizePending' = TRUE
    /\ UNCHANGED <<pc, rcFrom, currentFrame, framebufferResized, result, imageIndex,
                   width, height, inFlightFences, executing, shouldClose,
                   swapChainSupport, swapChain, swapChainImages, swapChainExtent,
                   swapChainImageViews, swapChainFramebuffers, what, iter>>
    /\ UNCHANGED <<surfaceVars, chainVars, objects, gpuVars>>

\* The presentation engine hands over the image acquired for slot i: the
\* semaphore given to vkAcquireNextImageKHR is signaled.  A submission of the
\* slot that waits on the semaphore consumes the signal and its
\* color-attachment-output stage begins.  Nothing but that submission reads
\* the semaphore, so a signal that comes before the submit shows as a signal
\* right after it, and the model lets the semaphore be signaled only then.
ImageAvailable(i) ==
    /\ pc # "fatal"
    /\ imageAvailableSemaphores[i] = "pending"
    /\ executing[i]
    /\ IF executing[i] /\ ~colorOutput[i]
       THEN /\ imageAvailableSemaphores' =
                   [imageAvailableSemaphores EXCEPT ![i] = "unsignaled"]
            /\ colorOutput' = [colorOutput EXCEPT ![i] = TRUE]
       ELSE /\ imageAvailableSemaphores' =
                   [imageAvailableSemaphores EXCEPT ![i] = "signaled"]
            /\ UNCHANGED colorOutput
    /\ UNCHANGED <<pc, rcFrom, currentFrame, framebufferResized, result, imageIndex,
                   width, height, inFlightFences, executing, window, resizePending,
                   shouldClose, swapChainSupport, swapChain, swapChainImages,
                   swapChainExtent, swapChainImageViews, swapChainFramebuffers,
                   what, iter>>
    /\ UNCHANGED <<surfaceVars, chainVars, objects, renderFinishedSemaphores,
                   presentQueue, presented, stalePresent, everSubmitted>>

\* The GPU finishes the submission of slot i (as long as the process lives):
\* its writes are complete, the fence given to vkQueueSubmit and
\* renderFinishedSemaphores[i] are signaled.  The semaphore is binary: a
\* signal that finds it signaled leaves it signaled.
GpuComplete(i) ==
    /\ pc # "fatal"
    /\ executing[i]
    /\ colorOutput[i]
    /\ executing' = [executing EXCEPT ![i] = FALSE]
    /\ colorOutput' = [colorOutput EXCEPT ![i] = FALSE]
    /\ inFlightFences' = [inFlightFences EXCEPT ![i] = TRUE]
    /\ renderFinishedSemaphores' =
           [renderFinishedSemaphores EXCEPT ![i] = "signaled"]
    /\ UNCHANGED <<pc, rcFrom, currentFrame, framebufferResized, result, imageIndex,
                   width, height, window, resizePending, shouldClose,
                   swapChainSupport, swapChain, swapChainImages, swapChainExtent,
                   swapChainImageViews, swapChainFramebuffers, what, iter>>
    /\ UNCHANGED <<surfaceVars, chainVars, objects, imageAvailableSemaphores,
                   presentQueue, presented, stalePresent, everSubmitted>>

\* The presentation engine executes a present request that waits on
\* renderFinishedSemaphores[i], at any time after the semaphore was signaled:
\* the signal is consumed and the image is read for display.  Requests are
\* executed in the order of their vkQueuePresentKHR calls, so a request of an
\* earlier frame of the slot goes first.  Nothing tells the program when
\* this has happened.
PresentExecute(i) ==
    /\ pc # "fatal"
    /\ PresentMayExecute(i)
    /\ stalePresent[i] \/ presentQueue[i]
    /\ renderFinishedSemaphores' =
           [renderFinishedSemaphores EXCEPT ![i] = "unsignaled"]
    /\ IF stalePresent[i]
       THEN /\ stalePresent' = [stalePresent EXCEPT ![i] = FALSE]
            /\ UNCHANGED <<presentQueue, presented>>
       ELSE /\ presentQueue' = [presentQueue EXCEPT ![i] = FALSE]
            /\ presented' = [presented EXCEPT ![i] = TRUE]
            /\ UNCHANGED stalePresent
    /\ UNCHANGED <<pc, rcFrom, currentFrame, framebufferResized, result, imageIndex,
                   width, height, inFlightFences, executing, window, resizePending,
                   shouldClose, swapChainSupport, swapChain, swapChainImages,
                   swapChainExtent, swapChainImageViews, swapChainFramebuffers,
                   what, iter>>
    /\ UNCHANGED <<surfaceVars, chainVars, objects, imageAvailableSemaphores,
                   colorOutput, everSubmitted>>

\* framebufferResizeCallback, run for a queued framebuffer-size event.
framebufferResizeCallback ==
    /\ framebufferResized' = (framebufferResized \/ resizePending)
    /\ resizePending' = FALSE

\* Event processing also handles a close request of the user, if there is
\* one: GLFW then sets the window's close flag.  The flag is read by the loop
\* test alone, so a request handled by any glfwPollEvents or glfwWaitEvents of
\* an iteration shows to the program as one handled right before the test
\* that follows, and the model sets the flag only there.
closeCallback == shouldClose' \in {shouldClose, TRUE}

(***************************************************************************)
(* initVulkan, from createSwapChain on                                     *)
(***************************************************************************)
\* createRenderPass() and createGraphicsPipeline(); either may be rejected.
createRenderPass ==
    /\ pc = "initCreateRenderPass"
    /\ \E r \in {"VK_SUCCESS", "failed to create render pass!",
                 "failed to create graphics pipeline!"} :
         IF r = "failed to create render pass!"
         THEN /\ Throw(r, iter)
              /\ UNCHANGED objects
         ELSE IF r = "failed to create graphics pipeline!"
         THEN /\ Throw(r, iter)
              /\ objects' = [objects EXCEPT !["renderPass"] = "live"]
         ELSE /\ objects' = [objects EXCEPT !["renderPass"] = "live",
                                            !["graphicsPipeline"] = "live"]
              /\ pc' = "initCreateFramebuffers"
              /\ UNCHANGED <<what, iter>>
    /\ UNCHANGED <<rcFrom, currentFrame, framebufferResized, result, imageIndex,
                   width, height, inFlightFences, executing, window, resizePending,
                   shouldClose, swapChainSupport, swapChain, swapChainImages,
                   swapChainExtent, swapChainImageViews, swapChainFramebuffers>>
    /\ UNCHANGED <<surfaceVars, chainVars, gpuVars>>

\* createCommandPool() and createCommandBuffers(); either may be rejected.
createCommandBuffers ==
    /\ pc = "initCreateCommandBuffers"
    /\ \E r \in {"VK_SUCCESS", "failed to create command pool",
                 "failed to allocate command buffers"} :
         IF r = "failed to create command pool"
         THEN /\ Throw(r, iter)
              /\ UNCHANGED objects
         ELSE IF r = "failed to allocate command buffers"
         THEN /\ Throw(r, iter)
              /\ objects' = [objects EXCEPT !["commandPool"] = "live"]
         ELSE /\ objects' = [objects EXCEPT !["commandPool"] = "live",
                                            !["commandBuffers"] = "live"]
              /\ pc' = "initCreateSyncObjects"
              /\ UNCHANGED <<what, iter>>
    /\ UNCHANGED <<rcFrom, currentFrame, framebufferResized, result, imageIndex,
                   width, height, inFlightFences, executing, window, resizePending,
                   shouldClose, swapChainSupport, swapChain, swapChainImages,
                   swapChainExtent, swapChainImageViews, swapChainFramebuffers>>
    /\ UNCHANGED <<surfaceVars, chainVars, gpuVars>>

\* The fences are created without a flag (used to test C21).
FenceCreatedUnsignaled == FALSE

\* fenceInfo.flags = VK_FENCE_CREATE_SIGNALED_BIT: whether vkCreateFence
\* creates the fence signaled.
FenceCreatedSignaled == TRUE

\* createSyncObjects(): per slot two semaphores and a fence created signaled
\* (VK_FENCE_CREATE_SIGNALED_BIT); a creation may be rejected.  On success
\* initVulkan returns and run() enters mainLoop.
createSyncObjects ==
    /\ pc = "initCreateSyncObjects"
    /\ \E r \in {"VK_SUCCESS", "failed to create semaphores and fence"} :
         IF r # "VK_SUCCESS"
         THEN /\ Throw(r, iter)
              /\ UNCHANGED <<objects, inFlightFences>>
         ELSE /\ objects' = [o \in ObjectNames |->
                                IF o \in SyncObjects THEN "live" ELSE objects[o]]
              /\ inFlightFences' = [i \in Slots |-> FenceCreatedSignaled]
              /\ pc' = "loop"
              /\ UNCHANGED <<what, iter>>
    /\ UNCHANGED <<rcFrom, currentFrame, framebufferResized, result, imageIndex,
                   width, height, executing, window, resizePending,
                   shouldClose, swapChainSupport, swapChain, swapChainImages,
                   swapChainExtent, swapChainImageViews, swapChainFramebuffers>>
    /\ UNCHANGED <<surfaceVars, chainVars, gpuVars>>

(***************************************************************************)
(* mainLoop                                                                *)
(***************************************************************************)
\* while(!glfwWindowShouldClose(window)); before the first iteration no
\* event was processed yet.
mainLoop ==
    /\ pc = "loop"
    /\ IF iter.exit = "none" THEN UNCHANGED shouldClose ELSE closeCallback
    /\ pc' = IF shouldClose' THEN "exitIdle" ELSE "poll"
    /\ iter' = NoIter
    /\ UNCHANGED <<rcFrom, currentFrame, framebufferResized, result, imageIndex,
                   width, height, inFlightFences, executing, window, resizePending,
                   swapChainSupport, swapChain, swapChainImages,
                   swapChainExtent, swapChainImageViews, swapChainFramebuffers,
                   what>>
    /\ UNCHANGED <<surfaceVars, chainVars, objects, gpuVars>>

\* glfwPollEvents(): runs the callbacks of the queued events.
glfwPollEvents ==
    /\ pc = "poll"
    /\ framebufferResizeCallback
    /\ pc' = "wait"
    /\ UNCHANGED <<rcFrom, currentFrame, result, imageIndex, width, height,
                   inFlightFences, executing, window, shouldClose,
                   swapChainSupport, swapChain, swapChainImages, swapChainExtent,
                   swapChainImageViews, swapChainFramebuffers, what, iter>>
    /\ UNCHANGED <<surfaceVars, chainVars, objects, gpuVars>>

\* vkDeviceWaitIdle(device) after the loop.
mainLoopWaitIdle ==
    /\ pc = "exitIdle"
    /\ DeviceWaitIdleReturns
    /\ pc' = "cleanup"
    /\ UNCHANGED <<rcFrom, currentFrame, framebufferResized, result, imageIndex,
                   width, height, inFlightFences, executing, window, resizePending,
                   shouldClose, swapChainSupport, swapChain, swapChainImages,
                   swapChainExtent, swapChainImageViews, swapChainFramebuffers,
                   what, iter>>
    /\ UNCHANGED <<surfaceVars, chainVars, objects, gpuVars>>

(***************************************************************************)
(* drawFrame                                                               *)
(***************************************************************************)
\* drawFrame is entered and vkWaitForFences returns for the current slot.
drawFrameWait ==
    /\ pc = "wait"
    /\ FenceWaitReturns(currentFrame)
    /\ pc' = "acquire"
    /\ iter' = FreshIter(currentFrame)
    /\ UNCHANGED <<rcFrom, currentFrame, framebufferResized, result, imageIndex,
                   width, height, inFlightFences, executing, window, resizePending,
                   shouldClose, swapChainSupport, swapChain, swapChainImages,
                   swapChainExtent, swapChainImageViews, swapChainFramebuffers,
                   what>>
    /\ UNCHANGED <<surfaceVars, chainVars, objects, gpuVars>>

\* result = vkAcquireNextImageKHR(..., imageAvailableSemaphores[currentFrame],
\* VK_NULL_HANDLE, &imageIndex) and the branches on it.  A call that returns
\* an image (success or suboptimal) leaves the semaphore to be signaled when
\* the image is handed over.  With the image a new frame of the slot begins:
\* a present request of the slot that still waits is from now on one of an
\* earlier frame.
drawFrameAcquire ==
    /\ pc = "acquire"
    /\ \E r \in AcquireResults :
         LET it == [iter EXCEPT !.acquire = r] IN
         /\ result' = r
         /\ IF r \in {"VK_SUCCESS", "VK_SUBOPTIMAL_KHR"}
            THEN /\ imageAvailableSemaphores' =
                        [imageAvailableSemaphores EXCEPT ![currentFrame] = "pending"]
                 /\ presented' = [presented EXCEPT ![currentFrame] = FALSE]
                 /\ stalePresent' =
                        [stalePresent EXCEPT ![currentFrame] =
                            @ \/ presentQueue[currentFrame]]
                 /\ presentQueue' = [presentQueue EXCEPT ![currentFrame] = FALSE]
            ELSE UNCHANGED <<imageAvailableSemaphores, presented, stalePresent,
                             presentQueue>>
         /\ IF AcquireNeedsRebuild(r)
            THEN /\ pc' = "rcSize"
                 /\ rcFrom' = "acquire"
                 /\ iter' = [it EXCEPT !.invalidated = TRUE]
                 /\ UNCHANGED <<imageIndex, what>>
            ELSE IF AcquireIsFatal(r)
            THEN /\ Throw("failed to acquire swap chain image!", it)
                 /\ UNCHANGED <<imageIndex, rcFrom>>
            ELSE /\ \E k \in 0 .. (swapChainImages - 1) :
                        /\ imageIndex' = k
                        /\ iter' = [it EXCEPT !.image = k]
                 /\ pc' = "resetFences"
                 /\ UNCHANGED <<rcFrom, what>>
    /\ UNCHANGED <<currentFrame, framebufferResized, width, height, inFlightFences,
                   executing, window, resizePending, shouldClose, swapChainSupport,
                   swapChain, swapChainImages, swapChainExtent, swapChainImageViews,
                   swapChainFramebuffers>>
    /\ UNCHANGED <<surfaceVars, chainVars, objects, renderFinishedSemaphores,
                   colorOutput, everSubmitted>>

\* vkResetFences(device, 1, &inFlightFences[currentFrame])
drawFrameResetFences ==
    /\ pc = "resetFences"
    /\ inFlightFences' = [inFlightFences EXCEPT ![currentFrame] = FALSE]
    /\ iter' = [iter EXCEPT !.reset = TRUE]
    /\ pc' = "record"
    /\ UNCHANGED <<rcFrom, currentFrame, framebufferResized, result, imageIndex,
                   width, height, executing, window, resizePending, shouldClose,
                   swapChainSupport, swapChain, swapChainImages, swapChainExtent,
                   swapChainImageViews, swapChainFramebuffers, what>>
    /\ UNCHANGED <<surfaceVars, chainVars, objects, gpuVars>>

\* vkResetCommandBuffer and recordCommandBuffer(commandBuffers[currentFrame],
\* imageIndex); vkBeginCommandBuffer or vkEndCommandBuffer may be rejected.
drawFrameRecord ==
    /\ pc = "record"
    /\ \E r \in {"VK_SUCCESS", "begin rejected", "end rejected"} :
         LET it == [iter EXCEPT !.recorded = TRUE,
                                !.framebuffer = FramebufferIndex(imageIndex)] IN
         IF r = "begin rejected"
         THEN Throw("failed to begin recording command buffers", it)
         ELSE IF r = "end rejected"
         THEN Throw("failed to record command buffers", it)
         ELSE /\ pc' = "submit"
              /\ iter' = it
              /\ UNCHANGED what
    /\ UNCHANGED <<rcFrom, currentFrame, framebufferResized, result, imageIndex,
                   width, height, inFlightFences, executing, window, resizePending,
                   shouldClose, swapChainSupport, swapChain, swapChainImages,
                   swapChainExtent, swapChainImageViews, swapChainFramebuffers>>
    /\ UNCHANGED <<surfaceVars, chainVars, objects, gpuVars>>

\* vkQueueSubmit(graphicsQueue, 1, &submitInfo, inFlightFences[currentFrame]).
\* The submission waits on imageAvailableSemaphores[currentFrame] at its
\* color-attachment-output stage; if the semaphore is signaled already the
\* signal is consumed and the stage begins.
drawFrameSubmit ==
    /\ pc = "submit"
    /\ \E r \in SubmitResults :
         IF r # "VK_SUCCESS"
         THEN /\ Throw("failed to submit draw command buffer!",
                       [iter EXCEPT !.submitted = FALSE])
              /\ UNCHANGED <<executing, imageAvailableSemaphores, colorOutput,
                             everSubmitted>>
         ELSE /\ executing' = [executing EXCEPT ![currentFrame] = TRUE]
              /\ everSubmitted' = [everSubmitted EXCEPT ![currentFrame] = TRUE]
              /\ IF ColorOutputMayBegin(currentFrame)
                 THEN /\ colorOutput' = [colorOutput EXCEPT ![currentFrame] = TRUE]
                      /\ imageAvailableSemaphores' =
                            [imageAvailableSemaphores EXCEPT ![currentFrame] =
                                IF @ = "signaled" THEN "unsignaled" ELSE @]
                 ELSE UNCHANGED <<imageAvailableSemaphores, colorOutput>>
              /\ iter' = [iter EXCEPT !.submitted = TRUE]
              /\ pc' = "present"
              /\ UNCHANGED what
    /\ UNCHANGED <<rcFrom, currentFrame, framebufferResized, result, imageIndex,
                   width, height, inFlightFences, window, resizePending,
                   shouldClose, swapChainSupport, swapChain, swapChainImages,
                   swapChainExtent, swapChainImageViews, swapChainFramebuffers>>
    /\ UNCHANGED <<surfaceVars, chainVars, objects, renderFinishedSemaphores,
                   presentQueue, presented, stalePresent>>

\* result = vkQueuePresentKHR(presentQueue, &presentInfo) and the branches on
\* it.  The request is queued whatever the call returns and waits on
\* renderFinishedSemaphores[currentFrame]; the presentation engine executes
\* it later.  imageIndex is not read after the call, and the history drops
\* the indexes of the iteration.
drawFramePresent ==
    /\ pc = "present"
    /\ imageIndex' = 0
    /\ presentQueue' = [presentQueue EXCEPT ![currentFrame] = TRUE]
    /\ \E r \in PresentResults :
         LET it == [iter EXCEPT !.present = r, !.presented = TRUE,
                                !.image = -1, !.framebuffer = -1,
                                !.invalidated =
                                    \/ r \in {"VK_ERROR_OUT_OF_DATE_KHR",
                                              "VK_SUBOPTIMAL_KHR"}
                                    \/ framebufferResized] IN
         /\ result' = r
         /\ IF PresentNeedsRebuild(r, framebufferResized)
            THEN /\ framebufferResized' = FALSE
                 /\ pc' = "rcSize"
                 /\ rcFrom' = "present"
                 /\ iter' = it
                 /\ UNCHANGED what
            ELSE IF PresentIsFatal(r)
            THEN /\ Throw("failed to present swap chain image!", it)
                 /\ UNCHANGED <<framebufferResized, rcFrom>>
            ELSE /\ pc' = "advance"
                 /\ iter' = it
                 /\ UNCHANGED <<framebufferResized, rcFrom, what>>
    /\ UNCHANGED <<currentFrame, width, height, inFlightFences,
                   executing, window, resizePending, shouldClose, swapChainSupport,
                   swapChain, swapChainImages, swapChainExtent, swapChainImageViews,
                   swapChainFramebuffers>>
    /\ UNCHANGED <<surfaceVars, chainVars, objects, imageAvailableSemaphores,
                   renderFinishedSemaphores, colorOutput, presented, stalePresent,
                   everSubmitted>>

\* currentFrame = (currentFrame + 1) % MAX_FRAMES_IN_FLIGHT; drawFrame returns.
drawFrameAdvance ==
    /\ pc = "advance"
    /\ currentFrame' = NextFrame(currentFrame)
    /\ pc' = "loop"
    /\ result' = "none"
    /\ imageIndex' = 0
    /\ rcFrom' = "none"
    /\ iter' = [iter EXCEPT !.exit = "returned"]
    /\ UNCHANGED <<framebufferResized, width, height, inFlightFences, executing,
                   window, resizePending, shouldClose, swapChainSupport, swapChain,
                   swapChainImages, swapChainExtent, swapChainImageViews,
                   swapChainFramebuffers, what>>
    /\ UNCHANGED <<surfaceVars, chainVars, objects, gpuVars>>

(***************************************************************************)
(* recreateSwapChain                                                       *)
(***************************************************************************)
\* int width = 0, height = 0; glfwGetFramebufferSize(window, &width, &height);
\* and the first test of while(width == 0 || height == 0).
recreateGetFramebufferSize ==
    /\ pc = "rcSize"
    /\ width' = window.w
    /\ height' = window.h
    /\ pc' = IF IsMinimized(window.w, window.h) THEN "rcMinimized" ELSE "rcIdle"
    /\ UNCHANGED <<rcFrom, currentFrame, framebufferResized, result, imageIndex,
                   inFlightFences, executing, window, resizePending, shouldClose,
                   swapChainSupport, swapChain, swapChainImages, swapChainExtent,
                   swapChainImageViews, swapChainFramebuffers, what, iter>>
    /\ UNCHANGED <<surfaceVars, chainVars, objects, gpuVars>>

\* One pass of the loop body and the test that follows it:
\* glfwGetWindowSize(window, &width, &height); glfwWaitEvents();
\* glfwWaitEvents returns after some event (of any kind) was processed; a
\* queued framebuffer-size event runs the callback.
recreateMinimized ==
    /\ pc = "rcMinimized"
    /\ width' = window.w
    /\ height' = window.h
    /\ framebufferResizeCallback
    /\ iter' = [iter EXCEPT !.blocked = TRUE]
    /\ pc' = IF IsMinimized(window.w, window.h) THEN "rcMinimized" ELSE "rcIdle"
    /\ UNCHANGED <<rcFrom, currentFrame, result, imageIndex, inFlightFences,
                   executing, window, shouldClose, swapChainSupport, swapChain, swapChainImages,
                   swapChainExtent, swapChainImageViews, swapChainFramebuffers,
                   what>>
    /\ UNCHANGED <<surfaceVars, chainVars, objects, gpuVars>>

\* vkDeviceWaitIdle(device): returns when no submission is pending.  width and
\* height are not read again; the history keeps whether both were non-zero.
recreateWaitIdle ==
    /\ pc = "rcIdle"
    /\ DeviceWaitIdleReturns
    /\ pc' = "rcCleanup"
    /\ width' = 0
    /\ height' = 0
    /\ iter' = [iter EXCEPT !.sized = (width # 0 /\ height # 0)]
    /\ UNCHANGED <<rcFrom, currentFrame, framebufferResized, result, imageIndex,
                   inFlightFences, executing, window, resizePending,
                   shouldClose, swapChainSupport, swapChain, swapChainImages,
                   swapChainExtent, swapChainImageViews, swapChainFramebuffers,
                   what>>
    /\ UNCHANGED <<surfaceVars, chainVars, objects, gpuVars>>

\* The image views go before the framebuffers (used to test C23).
TeardownOrderViewsFirst == <<"imageViews", "framebuffers", "swapChain">>

\* The three parts of cleanupSwapChain() in the order of its statements: the
\* loop of vkDestroyFramebuffer, the loop of vkDestroyImageView,
\* vkDestroySwapchainKHR.
TeardownOrder == <<"framebuffers", "imageViews", "swapChain">>

\* The part of cleanupSwapChain() that runs at position p.
TeardownPart(p) ==
    CASE p \in {"rcCleanup", "cleanup"} -> 1
      [] p \in {"rcCleanupViews", "cleanupViews"} -> 2
      [] OTHER -> 3

\* Where cleanupSwapChain() is after its part at position p; last is where
\* its caller goes on.
AfterTeardownPart(p, last) ==
    CASE p = "rcCleanup" -> "rcCleanupViews"
      [] p = "rcCleanupViews" -> "rcCleanupSwapChain"
      [] p = "cleanup" -> "cleanupViews"
      [] p = "cleanupViews" -> "cleanupSwapChain"
      [] OTHER -> last

\* Every swapchain object and a fence besides (used to test C16).
cleanupSwapChainAndFences(k) ==
    /\ swapChainFramebuffers' =
           IF TeardownOrder[k] = "framebuffers"
           THEN [swapChainFramebuffers EXCEPT !.live = 0, !.extent = NoExtent]
           ELSE swapChainFramebuffers
    /\ swapChainImageViews' =
           IF TeardownOrder[k] = "imageViews"
           THEN [swapChainImageViews EXCEPT !.live = 0]
           ELSE swapChainImageViews
    /\ swapChain' = IF TeardownOrder[k] = "swapChain" THEN "destroyed" ELSE swapChain
    /\ objects' = [objects EXCEPT !["inFlightFences"] = "destroyed"]

\* The k-th part of cleanupSwapChain(): every framebuffer, then every image
\* view, then the swapchain is destroyed, and nothing else; the vectors keep
\* their sizes.  A destroyed framebuffer has no extent any more.
cleanupSwapChain(k) ==
    /\ swapChainFramebuffers' =
           IF TeardownOrder[k] = "framebuffers"
           THEN [swapChainFramebuffers EXCEPT !.live = 0, !.extent = NoExtent]
           ELSE swapChainFramebuffers
    /\ swapChainImageViews' =
           IF TeardownOrder[k] = "imageViews"
           THEN [swapChainImageViews EXCEPT !.live = 0]
           ELSE swapChainImageViews
    /\ swapChain' = IF TeardownOrder[k] = "swapChain" THEN "destroyed" ELSE swapChain
    /\ UNCHANGED objects

\* cleanupSwapChain() in recreateSwapChain, part by part; the history keeps
\* the swapchain that is torn down.
recreateCleanup ==
    /\ pc \in {"rcCleanup", "rcCleanupViews", "rcCleanupSwapChain"}
    /\ cleanupSwapChain(TeardownPart(pc))
    /\ pc' = AfterTeardownPart(pc, "rcCreateSwapChain")
    /\ iter' = IF pc = "rcCleanup" THEN [iter EXCEPT !.before = Chain] ELSE iter
    /\ UNCHANGED <<rcFrom, currentFrame, framebufferResized, result, imageIndex,
                   width, height, inFlightFences, executing, window, resizePending,
                   shouldClose, swapChainSupport, swapChainImages, swapChainExtent,
                   what>>
    /\ UNCHANGED <<surfaceVars, chainVars, gpuVars>>

\* createSwapChain(), called by initVulkan and by recreateSwapChain: queries
\* the surface, chooses the format, the present mode, the extent and the
\* image count and creates the swapchain; vkCreateSwapchainKHR may be
\* rejected.
createSwapChain ==
    /\ pc \in {"initCreateSwapChain", "rcCreateSwapChain"}
    /\ \E caps \in SurfaceCaps(window) :
       \E surfaceFormat \in chooseSwapSurfaceFormat(formats) :
       \E extent \in chooseSwapExtent(caps, window) :
       \E r \in CreateResults :
         /\ swapChainSupport' = caps
         /\ builtFor' = window
         /\ createInfo' = SwapchainCreateInfo(surfaceFormat,
                                              chooseSwapPresentMode(presentModes),
                                              extent, ImageCount(caps))
         /\ IF r # "VK_SUCCESS"
            THEN /\ Throw("failed to create swap chain!", iter)
                 /\ UNCHANGED <<swapChain, swapChainImages, swapChainExtent,
                                swapChainImageFormat>>
            ELSE /\ swapChain' = "live"
                 /\ swapChainImages' = ImageCount(caps)
                 /\ swapChainImageFormat' = surfaceFormat.format
                 /\ swapChainExtent' = extent
                 /\ pc' = IF pc = "initCreateSwapChain"
                          THEN "initCreateImageViews" ELSE "rcCreateImageViews"
                 /\ UNCHANGED <<what, iter>>
    /\ UNCHANGED <<rcFrom, currentFrame, framebufferResized, result, imageIndex,
                   width, height, inFlightFences, executing, window, resizePending,
                   shouldClose, swapChainImageViews, swapChainFramebuffers>>
    /\ UNCHANGED <<surfaceVars, objects, gpuVars>>

\* createImageViews(): one view per image; the k-th vkCreateImageView may be
\* rejected, leaving k views created.
createImageViews ==
    /\ pc \in {"initCreateImageViews", "rcCreateImageViews"}
    /\ \E k \in 0 .. swapChainImages :
         /\ swapChainImageViews' = [size |-> swapChainImages, live |-> k]
         /\ IF k < swapChainImages
            THEN Throw("failed to create swap chain image view", iter)
            ELSE /\ pc' = IF pc = "initCreateImageViews"
                          THEN "initCreateRenderPass" ELSE "rcCreateFramebuffers"
                 /\ UNCHANGED <<what, iter>>
    /\ UNCHANGED <<rcFrom, currentFrame, framebufferResized, result, imageIndex,
                   width, height, inFlightFences, executing, window, resizePending,
                   shouldClose, swapChainSupport, swapChain, swapChainImages,
                   swapChainExtent, swapChainFramebuffers>>
    /\ UNCHANGED <<surfaceVars, chainVars, objects, gpuVars>>

\* createFramebuffers(): one framebuffer per view, of the render pass and
\* swapChainExtent; the k-th vkCreateFramebuffer may be rejected.  On success
\* initVulkan goes on, or recreateSwapChain returns into drawFrame.
createFramebuffers ==
    /\ pc \in {"initCreateFramebuffers", "rcCreateFramebuffers"}
    /\ \E k \in 0 .. swapChainImageViews.size :
         /\ swapChainFramebuffers' =
                [size |-> swapChainImageViews.size, live |-> k,
                 extent |-> IF k = 0 THEN NoExtent ELSE swapChainExtent]
         /\ IF k < swapChainImageViews.size
            THEN /\ Throw("failed to create framebuffer!", iter)
                 /\ UNCHANGED <<rcFrom, result, imageIndex>>
            ELSE IF pc = "initCreateFramebuffers"
            THEN /\ pc' = "initCreateCommandBuffers"
                 /\ UNCHANGED <<rcFrom, result, imageIndex, what, iter>>
            ELSE /\ pc' = AfterRecreate(rcFrom)
                 /\ IF AfterRecreate(rcFrom) = "loop"
                    THEN /\ iter' = [iter EXCEPT !.rebuilt = TRUE, !.exit = "returned"]
                         /\ result' = "none"
                         /\ imageIndex' = 0
                         /\ rcFrom' = "none"
                    ELSE /\ iter' = [iter EXCEPT !.rebuilt = TRUE]
                         /\ UNCHANGED <<result, imageIndex, rcFrom>>
                 /\ UNCHANGED what
    /\ UNCHANGED <<currentFrame, framebufferResized, width, height,
                   inFlightFences, executing, window, resizePending, shouldClose,
                   swapChainSupport, swapChain, swapChainImages, swapChainExtent,
                   swapChainImageViews>>
    /\ UNCHANGED <<surfaceVars, chainVars, objects, gpuVars>>

(***************************************************************************)
(* cleanup                                                                 *)
(***************************************************************************)
\* The objects named in names are destroyed.
Destroy(names) ==
    objects' = [o \in ObjectNames |-> IF o \in names THEN "destroyed" ELSE objects[o]]

\* cleanup(): first cleanupSwapChain(), part by part.
cleanup ==
    /\ pc \in {"cleanup", "cleanupViews", "cleanupSwapChain"}
    /\ cleanupSwapChain(TeardownPart(pc))
    /\ pc' = AfterTeardownPart(pc, "cleanupPipeline")
    /\ UNCHANGED <<rcFrom, currentFrame, framebufferResized, result, imageIndex,
                   width, height, inFlightFences, executing, window, resizePending,
                   shouldClose, swapChainSupport, swapChainImages, swapChainExtent,
                   what, iter>>
    /\ UNCHANGED <<surfaceVars, chainVars, gpuVars>>

\* vkDestroyPipeline, vkDestroyPipelineLayout, vkDestroyRenderPass
cleanupPipeline ==
    /\ pc = "cleanupPipeline"
    /\ Destroy({"graphicsPipeline", "renderPass"})
    /\ pc' = "cleanupSyncObjects"
    /\ UNCHANGED <<rcFrom, currentFrame, framebufferResized, result, imageIndex,
                   width, height, inFlightFences, executing, window, resizePending,
                   shouldClose, swapChainSupport, swapChain, swapChainImages,
                   swapChainExtent, swapChainImageViews, swapChainFramebuffers,
                   what, iter>>
    /\ UNCHANGED <<surfaceVars, chainVars, gpuVars>>

\* The loop over the slots: vkDestroySemaphore twice and vkDestroyFence.
cleanupSyncObjects ==
    /\ pc = "cleanupSyncObjects"
    /\ Destroy(SyncObjects)
    /\ pc' = "cleanupDevice"
    /\ UNCHANGED <<rcFrom, currentFrame, framebufferResized, result, imageIndex,
                   width, height, inFlightFences, executing, window, resizePending,
                   shouldClose, swapChainSupport, swapChain, swapChainImages,
                   swapChainExtent, swapChainImageViews, swapChainFramebuffers,
                   what, iter>>
    /\ UNCHANGED <<surfaceVars, chainVars, gpuVars>>

\* vkDestroyCommandPool (which frees the command buffers), vkDestroyDevice and
\* the rest of cleanup(); run() returns.
cleanupDevice ==
    /\ pc = "cleanupDevice"
    /\ Destroy({"commandPool", "commandBuffers", "device"})
    /\ pc' = "done"
    /\ UNCHANGED <<rcFrom, currentFrame, framebufferResized, result, imageIndex,
                   width, height, inFlightFences, executing, window, resizePending,
                   shouldClose, swapChainSupport, swapChain, swapChainImages,
                   swapChainExtent, swapChainImageViews, swapChainFramebuffers,
                   what, iter>>
    /\ UNCHANGED <<surfaceVars, chainVars, gpuVars>>

(***************************************************************************)
(* Specification                                                           *)
(***************************************************************************)
Next ==
    \/ WindowResize
    \/ \E i \in Slots : ImageAvailable(i)
    \/ \E i \in Slots : GpuComplete(i)
    \/ \E i \in Slots : PresentExecute(i)
    \/ createRenderPass
    \/ createCommandBuffers
    \/ createSyncObjects
    \/ mainLoop
    \/ glfwPollEvents
    \/ mainLoopWaitIdle
    \/ drawFrameWait
    \/ drawFrameAcquire
    \/ drawFrameResetFences
    \/ drawFrameRecord
    \/ drawFrameSubmit
    \/ drawFramePresent
    \/ drawFrameAdvance
    \/ recreateGetFramebufferSize
    \/ recreateMinimized
    \/ recreateWaitIdle
    \/ recreateCleanup
    \/ createSwapChain
    \/ createImageViews
    \/ createFramebuffers
    \/ cleanup
    \/ cleanupPipeline
    \/ cleanupSyncObjects
    \/ cleanupDevice

Spec == Init /\ [][Next]_vars

(***************************************************************************)
(* The run without fatal errors, under the scheduling the program relies   *)
(* on: the thread runs (an event arrives for every glfwWaitEvents), the    *)
(* GPU hands over every acquired image and completes every submission      *)
(***************************************************************************)
\* A step of the program's thread.
ThreadStep ==
    \/ createRenderPass
    \/ createCommandBuffers
    \/ createSyncObjects
    \/ mainLoop
    \/ glfwPollEvents
    \/ mainLoopWaitIdle
    \/ drawFrameWait
    \/ drawFrameAcquire
    \/ drawFrameResetFences
    \/ drawFrameRecord
    \/ drawFrameSubmit
    \/ drawFramePresent
    \/ drawFrameAdvance
    \/ recreateGetFramebufferSize
    \/ recreateMinimized
    \/ recreateWaitIdle
    \/ recreateCleanup
    \/ createSwapChain
    \/ createImageViews
    \/ createFramebuffers
    \/ cleanup
    \/ cleanupPipeline
    \/ cleanupSyncObjects
    \/ cleanupDevice

\* A present request of slot i can be executed.
PresentReady(i) == PresentMayExecute(i) /\ (stalePresent[i] \/ presentQueue[i])

\* The program reads nothing that the presentation engine writes, so its
\* runs are the same whenever the engine executes a request; here it
\* executes each as soon as it can.  No driver call fails.
PresentsDone == \A i \in Slots : ~PresentReady(i)

NoFailure == pc' # "fatal"

NextLive ==
    \/ \E i \in Slots : PresentExecute(i)
    \/ PresentsDone /\ WindowResize
    \/ PresentsDone /\ \E i \in Slots : ImageAvailable(i)
    \/ PresentsDone /\ \E i \in Slots : GpuComplete(i)
    \/ PresentsDone /\ createRenderPass /\ NoFailure
    \/ PresentsDone /\ createCommandBuffers /\ NoFailure
    \/ PresentsDone /\ createSyncObjects /\ NoFailure
    \/ PresentsDone /\ mainLoop /\ NoFailure
    \/ PresentsDone /\ glfwPollEvents /\ NoFailure
    \/ PresentsDone /\ mainLoopWaitIdle /\ NoFailure
    \/ PresentsDone /\ drawFrameWait /\ NoFailure
    \/ PresentsDone /\ drawFrameAcquire /\ NoFailure
    \/ PresentsDone /\ drawFrameResetFences /\ NoFailure
    \/ PresentsDone /\ drawFrameRecord /\ NoFailure
    \/ PresentsDone /\ drawFrameSubmit /\ NoFailure
    \/ PresentsDone /\ drawFramePresent /\ NoFailure
    \/ PresentsDone /\ drawFrameAdvance /\ NoFailure
    \/ PresentsDone /\ recreateGetFramebufferSize /\ NoFailure
    \/ PresentsDone /\ recreateMinimized /\ NoFailure
    \/ PresentsDone /\ recreateWaitIdle /\ NoFailure
    \/ PresentsDone /\ recreateCleanup /\ NoFailure
    \/ PresentsDone /\ createSwapChain /\ NoFailure
    \/ PresentsDone /\ createImageViews /\ NoFailure
    \/ PresentsDone /\ createFramebuffers /\ NoFailure
    \/ PresentsDone /\ cleanup /\ NoFailure
    \/ PresentsDone /\ cleanupPipeline /\ NoFailure
    \/ PresentsDone /\ cleanupSyncObjects /\ NoFailure
    \/ PresentsDone /\ cleanupDevice /\ NoFailure

SpecLive ==
    /\ Init
    /\ [][NextLive]_vars
    /\ WF_pc(ThreadStep /\ NoFailure)
    /\ \A i \in Slots : WF_imageAvailableSemaphores(ImageAvailable(i))
    /\ \A i \in Slots : WF_executing(GpuComplete(i))

(***************************************************************************)
(* chooseSwapExtent on its own: every surface-capabilities value and every *)
(* window framebuffer size within MaxExtent                                *)
(***************************************************************************)
ExtentDims == 0 .. MaxExtent

ExtentSizes == [w : ExtentDims, h : ExtentDims]

\* Every VkSurfaceCapabilitiesKHR value within MaxExtent, consistent or not;
\* each component of currentExtent may also be the all-ones word.
AnyCaps ==
    [currentExtent  : [w : ExtentDims \cup {UINT32_MAX},
                       h : ExtentDims \cup {UINT32_MAX}],
     minImageExtent : ExtentSizes,
     maxImageExtent : ExtentSizes,
     minImageCount  : {MaxMinImages},
     maxImageCount  : {0}]

InitExtent ==
    /\ pc = "chooseSwapExtent"
    /\ ProgramStart
    /\ window \in ExtentSizes
    /\ swapChainSupport \in AnyCaps
    /\ swapChain = "destroyed"
    /\ swapChainImages = 0
    /\ swapChainExtent = NoExtent
    /\ swapChainImageViews = [size |-> 0, live |-> 0]
    /\ swapChainFramebuffers = [size |-> 0, live |-> 0, extent |-> NoExtent]
    /\ formats = DeviceFormats
    /\ presentModes = DevicePresentModes

\* VkExtent2D extent = chooseSwapExtent(swapChainSupport.capabilities, window);
\* ... swapChainExtent = extent;   (createSwapChain)
createSwapChainExtent ==
    /\ pc = "chooseSwapExtent"
    /\ \E extent \in chooseSwapExtent(swapChainSupport, window) :
         swapChainExtent' = extent
    /\ pc' = "chosen"
    /\ UNCHANGED <<rcFrom, currentFrame, framebufferResized, result, imageIndex,
                   width, height, inFlightFences, executing, window, resizePending,
                   shouldClose, swapChainSupport, swapChain, swapChainImages,
                   swapChainImageViews, swapChainFramebuffers, what, iter>>
    /\ UNCHANGED <<surfaceVars, chainVars, objects, gpuVars>>

NextExtent == createSwapChainExtent

SpecExtent == InitExtent /\ [][NextExtent]_vars

(***************************************************************************)
(* The format, the present mode and the image count on their own: every    *)
(* format list and mode list within MaxFormats and MaxPresentModes, every   *)
(* image-count range a surface may report within MaxImageCount             *)
(***************************************************************************)
\* The image-count limits of a surface: at least one image, and a maximum
\* that is 0 (no limit) or not below the minimum.
ImageCountCaps ==
    {c \in [minImageCount : 1 .. MaxImageCount, maxImageCount : 0 .. MaxImageCount] :
        c.maxImageCount = 0 \/ c.maxImageCount >= c.minImageCount}

\* The capabilities of a surface whose only extent is e and whose
\* image-count limits are c.
FixedExtentCaps(e, c) ==
    [currentExtent  |-> e, minImageExtent |-> e, maxImageExtent |-> e,
     minImageCount  |-> c.minImageCount, maxImageCount |-> c.maxImageCount]

InitChoose ==
    /\ pc = "chooseSwap"
    /\ ProgramStart
    /\ window = Extent(1, 1)
    /\ swapChainSupport \in {FixedExtentCaps(window, c) : c \in ImageCountCaps}
    /\ swapChain = "none"
    /\ swapChainImages = 0
    /\ swapChainExtent = NoExtent
    /\ swapChainImageViews = [size |-> 0, live |-> 0]
    /\ swapChainFramebuffers = [size |-> 0, live |-> 0, extent |-> NoExtent]
    /\ formats \in Vectors(VkSurfaceFormats, 1, MaxFormats)
    /\ presentModes \in Vectors(VkPresentModes, 0, MaxPresentModes)

\* The choices of createSwapChain up to the filling of createInfo:
\* chooseSwapSurfaceFormat, chooseSwapPresentMode, chooseSwapExtent, the image
\* count, and the members set from them.
createSwapChainChoose ==
    /\ pc = "chooseSwap"
    /\ \E surfaceFormat \in chooseSwapSurfaceFormat(formats) :
       \E extent \in chooseSwapExtent(swapChainSupport, window) :
         /\ createInfo' = SwapchainCreateInfo(surfaceFormat,
                                              chooseSwapPresentMode(presentModes),
                                              extent, ImageCount(swapChainSupport))
         /\ swapChainImageFormat' = surfaceFormat.format
         /\ swapChainExtent' = extent
    /\ builtFor' = window
    /\ pc' = "chosen"
    /\ UNCHANGED <<rcFrom, currentFrame, framebufferResized, result, imageIndex,
                   width, height, inFlightFences, executing, window, resizePending,
                   shouldClose, swapChainSupport, swapChain, swapChainImages,
                   swapChainImageViews, swapChainFramebuffers, what, iter>>
    /\ UNCHANGED <<surfaceVars, objects, gpuVars>>

NextChoose == createSwapChainChoose

SpecChoose == InitChoose /\ [][NextChoose]_vars

(***************************************************************************)
(* Properties                                                              *)
(***************************************************************************)
\* drawFrame has just returned normally; the history is that of the iteration.
Returned == pc = "loop" /\ iter.exit = "returned"

\* The positions inside recreateSwapChain after the minimization loop.
RebuildPositions == {"rcCleanup", "rcCleanupViews", "rcCleanupSwapChain",
                     "rcCreateSwapChain", "rcCreateImageViews",
                     "rcCreateFramebuffers"}

\* The positions inside recreateSwapChain.
RecreatePositions == {"rcSize", "rcMinimized", "rcIdle"} \cup RebuildPositions

\* The errors createSwapChain, createImageViews and createFramebuffers throw.
RebuildErrors == {"failed to create swap chain!",
                  "failed to create swap chain image view",
                  "failed to create framebuffer!"}

Advanced == currentFrame = (iter.start + 1) % MAX_FRAMES_IN_FLIGHT

\* C1: the command buffer of the current slot is reset and recorded only while
\* no submission of that slot is executing: from the fence reset to the
\* submit the slot has nothing pending on the GPU, and a slot whose submission
\* is executing has its fence unsignaled, so the wait that precedes the
\* recording cannot return before the submission completed.
C1_NoRecordingWhileInFlight ==
    /\ pc \in {"acquire", "resetFences", "record", "submit"}
          => ~executing[currentFrame]
    /\ \A i \in Slots : executing[i] => ~inFlightFences[i]

\* C1 witness: slot 0 is being recorded again (slot 1, used after it, still
\* executes), so slot 0's earlier submission was waited for.
C1_Witness ==
    /\ pc = "record"
    /\ currentFrame = 0
    /\ executing[1]

\* C2: an iteration whose acquire reports out-of-date resets no fence, records
\* nothing, submits nothing and presents nothing; it only runs the rebuild,
\* and returns with the cursor where it was.
C2_AcquireOutOfDateSkipsFrame ==
    iter.acquire = "VK_ERROR_OUT_OF_DATE_KHR" =>
        /\ ~iter.reset /\ ~iter.recorded /\ ~iter.submitted /\ ~iter.presented
        /\ inFlightFences[iter.start]
        /\ currentFrame = iter.start
        /\ pc \in RecreatePositions \cup {"loop", "fatal"}
        /\ (pc = "loop" => iter.rebuilt /\ iter.exit = "returned")

\* C2 witness: an iteration returned after acquire reported out-of-date.
C2_Witness == Returned /\ iter.acquire = "VK_ERROR_OUT_OF_DATE_KHR"

\* C3: when present reports suboptimal the cursor advances by one (mod F) in
\* that iteration, and the rebuild has completed when the iteration returns,
\* that is before the next acquire.
C3_PresentSuboptimalDelivers ==
    iter.present = "VK_SUBOPTIMAL_KHR" =>
        /\ pc \in RecreatePositions \cup {"advance", "loop", "fatal"}
        /\ (pc \in {"advance", "loop"} =>
               /\ iter.rebuilt
               /\ swapChain = "live"
               /\ swapChainFramebuffers.live = swapChainImages)
        /\ (Returned => Advanced)

\* C3 witness: an iteration returned after present reported suboptimal.
C3_Witness == Returned /\ iter.present = "VK_SUBOPTIMAL_KHR"

\* C4 as claimed: every iteration that went through invalidation handling
\* returns with the cursor where it was at the start of the iteration.
C4_InvalidationKeepsCursor ==
    (Returned /\ iter.invalidated) => currentFrame = iter.start

\* C4 as amended: an iteration that went through invalidation handling
\* returns with the cursor unchanged if the invalidation was acquire reporting
\* out-of-date, and with the cursor advanced by one (mod F) if it was found at
\* the present step.
C4_CursorAfterInvalidation ==
    (Returned /\ iter.invalidated) =>
        IF iter.acquire = "VK_ERROR_OUT_OF_DATE_KHR"
        THEN ~iter.presented /\ currentFrame = iter.start
        ELSE iter.presented /\ Advanced /\ currentFrame # iter.start

\* C4 witness: an iteration returned from a rebuild started at the present step.
C4_Witness == Returned /\ iter.invalidated /\ iter.presented /\ iter.rebuilt

\* C5: the cursor is a slot index in every state, and every iteration that
\* submitted a command buffer and returned has advanced it by one (mod F).
C5_CursorInRangeAndAdvances ==
    /\ currentFrame \in Slots
    /\ (Returned /\ iter.submitted) => Advanced

\* C5 witness: a submitted frame wrapped the cursor while the swapchain has
\* more images than there are slots.
C5_Witness ==
    /\ Returned /\ iter.submitted
    /\ iter.start = MAX_FRAMES_IN_FLIGHT - 1
    /\ swapChainImages > MAX_FRAMES_IN_FLIGHT

\* C6 as claimed: a result of acquire or present that is neither success nor
\* an invalidation code has raised the fatal error of its step, whatever the
\* resize flag was, and no rebuild runs in its place.
C6_UnrecognizedResultIsFatal ==
    /\ iter.acquire \in {"VK_ERROR_DEVICE_LOST", "VK_NOT_READY"}
          => pc = "fatal" /\ what = "failed to acquire swap chain image!"
    /\ iter.present = "VK_ERROR_DEVICE_LOST"
          => pc = "fatal" /\ what = "failed to present swap chain image!"

\* C7: an iteration that went through invalidation handling ends with an
\* error only if the rebuild itself failed; once the rebuild is done the
\* iteration goes on to its normal return.
C7_InvalidationIsNotAnError ==
    iter.invalidated =>
        /\ (pc = "fatal" => what \in RebuildErrors)
        /\ (iter.rebuilt => pc \in {"advance", "loop"})
        /\ (pc = "loop" => iter.exit = "returned")

\* C7 witness: an iteration returned normally after present reported suboptimal
\* or out-of-date.
C7_Witness ==
    /\ Returned /\ iter.invalidated /\ iter.rebuilt
    /\ iter.present \in {"VK_SUBOPTIMAL_KHR", "VK_ERROR_OUT_OF_DATE_KHR"}

\* C8 as claimed: an iteration whose acquire reported suboptimal has rebuilt
\* the swapchain when it returns.
C8_AcquireSuboptimalRebuilds ==
    (Returned /\ iter.acquire = "VK_SUBOPTIMAL_KHR") => iter.rebuilt

\* C8 as amended: an iteration whose acquire reported suboptimal resets the
\* fence, records, submits and presents, and rebuilds the swapchain exactly
\* when the present step finds an invalidation (present reports out-of-date
\* or suboptimal, or a resize notification is pending).
C8_AcquireSuboptimalProceeds ==
    (Returned /\ iter.acquire = "VK_SUBOPTIMAL_KHR") =>
        /\ iter.reset /\ iter.recorded /\ iter.submitted /\ iter.presented
        /\ iter.rebuilt <=> iter.invalidated

\* C8 witness: acquire reported suboptimal, present succeeded with no resize
\* pending, and the iteration returned without a rebuild.
C8_Witness ==
    /\ Returned /\ iter.acquire = "VK_SUBOPTIMAL_KHR"
    /\ iter.present = "VK_SUCCESS" /\ ~iter.rebuilt

\* C9: while recreateSwapChain sees a zero width or height nothing is torn
\* down; the device-idle wait, the teardown and the creation are reached only
\* with a non-zero width and height observed.
C9_MinimizedBlocksRebuild ==
    /\ pc = "rcMinimized" =>
          /\ width = 0 \/ height = 0
          /\ swapChain = "live"
          /\ swapChainFramebuffers.live = swapChainFramebuffers.size
    /\ pc = "rcIdle" => width # 0 /\ height # 0
    /\ pc \in RebuildPositions => iter.sized
    /\ iter.rebuilt => iter.sized

\* C9 witness: a rebuild that was blocked by a minimized window has completed.
C9_Witness == Returned /\ iter.blocked /\ iter.rebuilt

\* The positions of the frame loop and of drawFrame outside recreateSwapChain.
FramePositions == {"loop", "poll", "wait", "acquire", "resetFences", "record",
                   "submit", "present", "advance"}

\* The positions of initVulkan.
InitPositions == {"initCreateSwapChain", "initCreateImageViews",
                  "initCreateRenderPass", "initCreateFramebuffers",
                  "initCreateCommandBuffers", "initCreateSyncObjects"}

\* The positions after the frame loop.
ShutdownPositions == {"exitIdle", "cleanup", "cleanupViews",
                      "cleanupSwapChain", "cleanupPipeline",
                      "cleanupSyncObjects", "cleanupDevice", "done"}

C15_SwapchainWhole ==
    /\ pc \in FramePositions =>
          /\ Built(swapChainSupport, swapChainExtent)
          /\ swapChainFramebuffers.size = swapChainImageViews.size
          /\ swapChainImageViews.size = swapChainImages
          /\ swapChainImages > 0
          /\ objects["renderPass"] = "live"
    /\ what # "none" => pc = "fatal"

\* C15 witness: the frame loop runs on a rebuilt swapchain that has another
\* number of images than the one before it.
C15_Witness ==
    /\ Returned /\ iter.rebuilt
    /\ iter.before.images # swapChainImages
    /\ swapChainFramebuffers.live = swapChainImages

\* C16: the command buffers, fences and semaphores are created once, in
\* initVulkan after the first swapchain exists, and destroyed only in
\* cleanup; no step inside recreateSwapChain changes any device object or the
\* cursor, and the steps from cleanupSwapChain on change nothing of the frame
\* slots: what they change is the swapchain, its images, views, framebuffers,
\* format and extent.
C16_RebuildKeepsDeviceObjects ==
    [][ /\ \A o \in SyncObjects \cup {"commandBuffers"} :
              objects'[o] # objects[o] =>
                  \/ /\ objects[o] = "none" /\ objects'[o] = "live"
                     /\ pc \in {"initCreateCommandBuffers", "initCreateSyncObjects"}
                     /\ swapChain = "live"
                     /\ swapChainFramebuffers.live = swapChainImages
                  \/ /\ objects[o] = "live" /\ objects'[o] = "destroyed"
                     /\ pc \in {"cleanupSyncObjects", "cleanupDevice"}
        /\ pc \in RecreatePositions =>
              /\ objects' = objects
              /\ currentFrame' = currentFrame
        /\ pc \in RebuildPositions =>
              UNCHANGED <<inFlightFences, executing, imageAvailableSemaphores,
                          colorOutput, everSubmitted, framebufferResized,
                          formats, presentModes>>
      ]_vars

\* C16 witness: a rebuild has completed and every device object is live.
C16_Witness ==
    /\ pc = "advance" /\ iter.rebuilt
    /\ \A o \in ObjectNames : objects[o] = "live"
    /\ inFlightFences[currentFrame]

\* C17: the color-attachment writes of a slot's submission are under way only
\* after the image acquired for the slot was handed over (a submission whose
\* image is still pending has not begun them), and the present request of the
\* slot's frame is executed only after the submission has completed.
C17_SemaphoreOrdering ==
    \A i \in Slots :
        /\ colorOutput[i] =>
              executing[i] /\ imageAvailableSemaphores[i] # "pending"
        /\ (executing[i] /\ imageAvailableSemaphores[i] = "pending") =>
              ~colorOutput[i]
        /\ presented[i] => ~executing[i] /\ ~colorOutput[i] /\ ~presentQueue[i]

\* C17 witness: the writes of slot 0 are under way after its image was handed
\* over, and its present request waits for them.
C17_Witness ==
    /\ colorOutput[0] /\ presentQueue[0]
    /\ imageAvailableSemaphores[0] = "unsignaled"
    /\ ~presented[0]

\* C18: after the loop has seen the close flag no drawFrame runs any more
\* (no step of an iteration is on record past the loop test);
\* nothing is destroyed before the device-idle wait has returned; the fences
\* and semaphores are destroyed after the framebuffers, the views and the
\* swapchain; and while a submission is pending the framebuffers, views,
\* swapchain, fences and semaphores all exist.
C18_ShutdownOrder ==
    /\ pc \in ShutdownPositions => shouldClose /\ what = "none" /\ iter = NoIter
    /\ pc \in ShutdownPositions \ {"exitIdle"} =>
          \A i \in Slots : ~executing[i] /\ ~colorOutput[i]
    /\ pc \in {"exitIdle", "cleanup"} =>
          /\ swapChain = "live"
          /\ \A o \in ObjectNames : objects[o] = "live"
    /\ \A o \in SyncObjects :
          objects[o] = "destroyed" =>
              /\ swapChain = "destroyed"
              /\ swapChainFramebuffers.live = 0
              /\ swapChainImageViews.live = 0
              /\ pc \in {"cleanupDevice", "done"}
    /\ \A i \in Slots :
          executing[i] =>
              /\ swapChain = "live"
              /\ swapChainFramebuffers.live = swapChainFramebuffers.size
              /\ swapChainImageViews.live = swapChainImageViews.size
              /\ \A o \in ObjectNames : objects[o] = "live"

\* C18 witness: shutdown is complete after a frame was submitted and
\* presented.
C18_Witness ==
    /\ pc = "done"
    /\ presented[0]
    /\ \A o \in ObjectNames : objects[o] = "destroyed"

\* C19 as claimed: once a driver call of drawFrame has reported a failure
\* that is not an invalidation code, the error is raised at once: the run
\* has ended with the message of the failed step.
C19_FailurePropagates ==
    /\ iter.acquire \in {"VK_ERROR_DEVICE_LOST", "VK_NOT_READY"}
          => pc = "fatal" /\ what # "none"
    /\ iter.present \notin {"none", "VK_SUCCESS", "VK_SUBOPTIMAL_KHR",
                             "VK_ERROR_OUT_OF_DATE_KHR"}
          => pc = "fatal" /\ what # "none"
    /\ what # "none" => pc = "fatal"

\* C20: a fence is un-signaled only in an iteration whose acquire returned
\* an image, and an iteration that un-signaled it and returned has submitted
\* with it; so an un-signaled fence has a pending submission that will
\* signal it (or its iteration is between the reset and the submit, or the
\* run has ended with an error), the fence awaited at the wait step is
\* signaled or about to be, and the acquire-out-of-date return leaves the
\* fence signaled.
C20_FenceResetOnlyBeforeSubmit ==
    /\ iter.reset => iter.acquire \in {"VK_SUCCESS", "VK_SUBOPTIMAL_KHR"}
    /\ (iter.reset /\ pc \notin {"record", "submit", "fatal"}) => iter.submitted
    /\ \A i \in Slots :
          (objects["inFlightFences"] = "live" /\ ~inFlightFences[i]) =>
              \/ executing[i]
              \/ i = currentFrame /\ pc \in {"record", "submit"}
              \/ pc = "fatal"
    /\ pc = "wait" => inFlightFences[currentFrame] \/ executing[currentFrame]
    /\ iter.acquire = "VK_ERROR_OUT_OF_DATE_KHR" =>
          ~iter.reset /\ inFlightFences[iter.start]

\* C20 witness: the wait step awaits a fence that is un-signaled while the
\* submission that will signal it is pending.
C20_Witness ==
    /\ pc = "wait"
    /\ ~inFlightFences[currentFrame]
    /\ executing[currentFrame]

\* The positions of drawFrame between its acquire and its present.
HoldingPositions == {"resetFences", "record", "submit", "present"}

\* C21: every fence is created signaled: when the frame loop is entered all
\* fences are signaled and nothing was submitted, and the wait of a slot
\* that no submission was made with finds the fence signaled and no work of
\* the slot pending, so it returns at once.
C21_FirstWaitDoesNotBlock ==
    /\ (pc = "loop" /\ iter.exit = "none") =>
          \A i \in Slots : inFlightFences[i] /\ ~everSubmitted[i] /\ ~executing[i]
    /\ \A i \in Slots :
          (objects["inFlightFences"] = "live" /\ ~everSubmitted[i]) =>
              /\ ~executing[i]
              /\ \/ inFlightFences[i]
                 \/ i = currentFrame /\ pc \in {"record", "submit"}
                 \/ pc = "fatal"
    /\ (pc = "wait" /\ ~everSubmitted[currentFrame]) =>
          FenceWaitReturns(currentFrame)

\* C21 witness: the first wait on the second slot has returned while the
\* work submitted with the first slot is still pending.
C21_Witness ==
    /\ pc = "acquire" /\ currentFrame # InitialFrame
    /\ ~everSubmitted[currentFrame]
    /\ everSubmitted[InitialFrame] /\ executing[InitialFrame]

\* C22: in a rebuild nothing of the swapchain is destroyed before the
\* device-idle wait has returned: from cleanupSwapChain on no submission is
\* pending, and whenever a framebuffer, an image view or the swapchain does
\* not exist no submission is pending, also in the rebuild called after
\* present, which begins with the submission of its iteration in flight.
C22_RebuildWaitsForDevice ==
    /\ pc \in RebuildPositions =>
          \A i \in Slots : ~executing[i] /\ ~colorOutput[i]
    /\ ( \/ swapChain # "live"
         \/ swapChainFramebuffers.live < swapChainFramebuffers.size
         \/ swapChainImageViews.live < swapChainImageViews.size ) =>
          \A i \in Slots : ~executing[i]

\* C22 witness: the rebuild called after present has destroyed the
\* framebuffers, after the submission of its iteration has completed.
C22_Witness ==
    /\ pc = "rcCleanupViews" /\ rcFrom = "present"
    /\ iter.submitted /\ swapChainFramebuffers.live = 0
    /\ inFlightFences[iter.start] /\ ~executing[iter.start]

\* C23: cleanupSwapChain destroys the framebuffers, then the image views,
\* then the swapchain: while a framebuffer exists every image view and the
\* swapchain exist, and while an image view exists the swapchain exists.
C23_TeardownOrder ==
    /\ swapChainFramebuffers.live > 0 =>
          /\ swapChainImageViews.live = swapChainImageViews.size
          /\ swapChain = "live"
    /\ swapChainImageViews.live > 0 => swapChain = "live"
    /\ pc \in {"rcCleanupViews", "cleanupViews"} =>
          /\ swapChainFramebuffers.live = 0
          /\ swapChainImageViews.live = swapChainImageViews.size
          /\ swapChain = "live"
    /\ pc \in {"rcCleanupSwapChain", "cleanupSwapChain"} =>
          /\ swapChainFramebuffers.live = 0
          /\ swapChainImageViews.live = 0
          /\ swapChain = "live"
    /\ pc \in {"rcCreateSwapChain", "cleanupPipeline"} =>
          /\ swapChainFramebuffers.live = 0
          /\ swapChainImageViews.live = 0
          /\ swapChain = "destroyed"

\* C23 witness: in a rebuild the framebuffers and the views of a swapchain
\* with more than one image are destroyed and the swapchain still exists.
C23_Witness ==
    /\ pc = "rcCleanupSwapChain"
    /\ swapChainImageViews.size > 1
    /\ swapChainImageViews.live = 0
    /\ swapChain = "live"

\* C24 as claimed: when an iteration that rebuilt the swapchain has returned
\* (and no new resize event was handled inside the rebuild), the resize flag
\* is clear.
C24_FlagClearAfterInvalidation ==
    (Returned /\ iter.rebuilt /\ ~iter.blocked) => ~framebufferResized

\* C25: a present that finds the resize flag set is followed by the rebuild
\* in the same iteration, whatever it returned (the iteration is in
\* recreateSwapChain, has rebuilt, or the rebuild has failed); so an iteration
\* that passes present without a rebuild leaves no flag set, and a flag that
\* is set at the end of an iteration that reached present was set inside its
\* rebuild.
C25_ResizeRebuildsAtPresent ==
    /\ (iter.presented /\ iter.invalidated) =>
          \/ pc \in RecreatePositions
          \/ iter.rebuilt /\ pc \in {"advance", "loop"}
          \/ pc = "fatal" /\ what \in RebuildErrors
    /\ (pc = "advance" /\ ~iter.rebuilt) =>
          ~framebufferResized /\ iter.present = "VK_SUCCESS"
    /\ (iter.presented /\ pc \in {"advance", "loop"} /\ framebufferResized) =>
          iter.rebuilt /\ iter.blocked

\* C25 witness: an iteration whose present returned success with the resize
\* flag set has rebuilt the swapchain and returned.
C25_Witness ==
    /\ Returned /\ iter.present = "VK_SUCCESS"
    /\ iter.invalidated /\ iter.rebuilt
    /\ ~framebufferResized

\* C26: between acquire and present the index is the acquired one, the
\* framebuffer recorded into is the one at that index, the index is a
\* position in the framebuffer list, whose framebuffers all exist, and the
\* iteration has not rebuilt the swapchain.
C26_ImageIndexKept ==
    /\ pc \in HoldingPositions =>
          /\ imageIndex = iter.image
          /\ imageIndex \in 0 .. (swapChainFramebuffers.size - 1)
          /\ swapChainFramebuffers.live = swapChainFramebuffers.size
          /\ swapChainFramebuffers.size = swapChainImages
          /\ ~iter.invalidated /\ ~iter.rebuilt
    /\ iter.framebuffer # -1 =>
          /\ iter.framebuffer = iter.image
          /\ iter.framebuffer \in 0 .. (swapChainFramebuffers.size - 1)

\* C26 witness: present is about to be called with the index of the last
\* image of a swapchain, which the command buffer was recorded for.
C26_Witness ==
    /\ pc = "present"
    /\ imageIndex > 0
    /\ imageIndex = swapChainImages - 1
    /\ iter.framebuffer = imageIndex

\* C27: when recreateSwapChain returns every fence is signaled and no
\* submission is pending, and so it is from cleanupSwapChain on; the next
\* wait returns at once whichever slot the cursor designates.
C27_RebuildLeavesFencesSignaled ==
    /\ (iter.rebuilt /\ pc \in {"advance", "loop"}) =>
          \A i \in Slots :
              inFlightFences[i] /\ ~executing[i] /\ FenceWaitReturns(i)
    /\ pc \in RebuildPositions => \A i \in Slots : inFlightFences[i]

\* C27 witness: a rebuild called after present has returned, after both
\* slots were submitted with.
C27_Witness ==
    /\ pc = "advance" /\ iter.rebuilt /\ iter.submitted
    /\ \A i \in Slots : everSubmitted[i] /\ inFlightFences[i]

\* C28 as claimed: no submission that will signal the render-finished
\* semaphore of a slot is pending while a present request of an earlier
\* frame of the slot still waits on that semaphore.
C28_RenderFinishedNotReused ==
    \A i \in Slots : ~(stalePresent[i] /\ executing[i])

\* C29: an iteration that acquired an image and has not presented it is
\* between its acquire and its present or has ended with an error; the
\* image-available semaphore of a slot is in use only while the frame of the
\* slot is between acquire and submit or its submission, which waits on it,
\* is pending.
C29_AcquiredImageIsPresented ==
    /\ (iter.acquire \in {"VK_SUCCESS", "VK_SUBOPTIMAL_KHR"} /\ ~iter.presented) =>
          pc \in HoldingPositions \cup {"fatal"}
    /\ iter.image # -1 => pc \in HoldingPositions \cup {"fatal"}
    /\ Returned /\ iter.acquire \in {"VK_SUCCESS", "VK_SUBOPTIMAL_KHR"} =>
          iter.submitted /\ iter.presented
    /\ \A i \in Slots :
          imageAvailableSemaphores[i] # "unsignaled" =>
              \/ executing[i]
              \/ i = currentFrame /\ pc \in {"resetFences", "record", "submit"}
              \/ pc = "fatal"

\* C29 witness: an iteration whose acquire returned suboptimal has presented
\* the image and returned, and the slot's submission has taken the image.
C29_Witness ==
    /\ Returned /\ iter.acquire = "VK_SUBOPTIMAL_KHR"
    /\ iter.presented /\ ~iter.rebuilt
    /\ imageAvailableSemaphores[iter.start] = "unsignaled"

(***************************************************************************)
(* Progress (specification SpecLive)                                       *)
(***************************************************************************)
\* The window is not minimized.
NonZeroWindow == window.w # 0 /\ window.h # 0

\* The last driver result is no invalidation code, no framebuffer-size event
\* is queued and the window was not closed.
Quiet ==
    /\ result \notin {"VK_ERROR_OUT_OF_DATE_KHR", "VK_SUBOPTIMAL_KHR"}
    /\ ~resizePending
    /\ ~shouldClose

\* C30: with a GPU that completes what is submitted, events that arrive for
\* the minimization loop and no fatal error (specification SpecLive), if the
\* window is from some time on not minimized then every drawFrame that is
\* called returns: its fence wait, its minimization loop and its device-idle
\* wait return; and if besides, from some time on, the driver reports no
\* invalidation, the window is not resized and not closed, then again and
\* again a frame is submitted and the cursor advances.
C30_DrawFrameTerminates ==
    /\ (<>[]NonZeroWindow) =>
          /\ (pc = "wait") ~> (pc = "loop")
          /\ (pc = "rcMinimized") ~> (pc = "rcIdle")
          /\ (pc = "rcIdle") ~> (pc = "rcCleanup")
    /\ (<>[](NonZeroWindow /\ Quiet)) =>
          /\ []<>(pc = "present")
          /\ []<>(Returned /\ iter.submitted /\ currentFrame # iter.start)

\* C30 witness: a drawFrame that waited in the minimization loop and for the
\* device, with its own submission in flight, has returned.
C30_Witness ==
    /\ Returned /\ iter.submitted
    /\ iter.blocked /\ iter.rebuilt
    /\ currentFrame # iter.start

(***************************************************************************)
(* Properties of chooseSwapExtent (specification SpecExtent)               *)
(***************************************************************************)
Within(e, lo, hi) ==
    /\ lo.w <= e.w /\ e.w <= hi.w
    /\ lo.h <= e.h /\ e.h <= hi.h

\* Capabilities as a conforming surface reports them: min <= max, and
\* currentExtent either the sentinel or an extent within [min, max].
Consistent(caps) ==
    /\ caps.minImageExtent.w <= caps.maxImageExtent.w
    /\ caps.minImageExtent.h <= caps.maxImageExtent.h
    /\ \/ caps.currentExtent = UndefinedExtent
       \/ /\ caps.currentExtent.w # UINT32_MAX
          /\ caps.currentExtent.h # UINT32_MAX
          /\ Within(caps.currentExtent, caps.minImageExtent, caps.maxImageExtent)

\* C10 as claimed: for every capabilities value and window size the chosen
\* extent lies within [minImageExtent, maxImageExtent] and equals
\* currentExtent unless that is the sentinel.
C10_ExtentWithinLimits ==
    pc = "chosen" =>
        /\ Within(swapChainExtent, swapChainSupport.minImageExtent,
                                   swapChainSupport.maxImageExtent)
        /\ swapChainSupport.currentExtent # UndefinedExtent
              => swapChainExtent = swapChainSupport.currentExtent

\* C10 as amended: the chosen extent equals currentExtent whenever
\* currentExtent.width is not the all-ones word; otherwise, with min <= max,
\* it is the window framebuffer size clamped into [min, max]; and it lies
\* within [min, max] whenever the capabilities are consistent.
C10_ExtentAsChosen ==
    pc = "chosen" =>
        LET caps == swapChainSupport IN
        /\ caps.currentExtent.w # UINT32_MAX => swapChainExtent = caps.currentExtent
        /\ ( /\ caps.currentExtent.w = UINT32_MAX
             /\ caps.minImageExtent.w <= caps.maxImageExtent.w
             /\ caps.minImageExtent.h <= caps.maxImageExtent.h )
              => /\ Within(swapChainExtent, caps.minImageExtent, caps.maxImageExtent)
                 /\ Within(window, caps.minImageExtent, caps.maxImageExtent)
                       => swapChainExtent = window
        /\ Consistent(caps)
              => Within(swapChainExtent, caps.minImageExtent, caps.maxImageExtent)

\* C10 witness: with currentExtent undefined, a window larger than the
\* surface's maximum was clamped to the maximum.
C10_Witness ==
    /\ pc = "chosen"
    /\ swapChainSupport.currentExtent = UndefinedExtent
    /\ Consistent(swapChainSupport)
    /\ window.w > swapChainSupport.maxImageExtent.w
    /\ swapChainExtent.w = swapChainSupport.maxImageExtent.w

(***************************************************************************)
(* Properties of the image count, the present mode and the surface format  *)
(* (specification SpecChoose)                                              *)
(***************************************************************************)
PreferredFormat ==
    [format |-> "VK_FORMAT_B8G8R8A8_SRGB",
     colorSpace |-> "VK_COLOR_SPACE_SRGB_NONLINEAR_KHR"]

Lists(list, x) == \E k \in 1 .. Len(list) : list[k] = x

\* C11: the image count requested from vkCreateSwapchainKHR is
\* minImageCount + 1, replaced by maxImageCount exactly when maxImageCount > 0
\* and minImageCount + 1 > maxImageCount; maxImageCount = 0 is no cap; the
\* request is never below minImageCount (min 2, max 0 gives 3; min 3, max 3
\* gives 3).
C11_ImageCountRequested ==
    pc = "chosen" =>
        LET min == swapChainSupport.minImageCount
            max == swapChainSupport.maxImageCount
            n   == createInfo.minImageCount
        IN  /\ (max > 0 /\ min + 1 > max) => n = max
            /\ ~(max > 0 /\ min + 1 > max) => n = min + 1
            /\ max = 0 => n = min + 1
            /\ n >= min
            /\ (min = 2 /\ max = 0) => n = 3
            /\ (min = 3 /\ max = 3) => n = 3

\* C11 witness: a surface with min 3 and max 3 was asked for 3 images.
C11_Witness ==
    /\ pc = "chosen"
    /\ swapChainSupport.minImageCount = 3
    /\ swapChainSupport.maxImageCount = 3
    /\ createInfo.minImageCount = 3

\* C12: the present mode is a function of the mode list alone: mailbox if the
\* list holds it at any position, FIFO otherwise; <<FIFO>> gives FIFO and
\* <<FIFO, MAILBOX>> gives mailbox.
C12_PresentModeChosen ==
    pc = "chosen" =>
        /\ createInfo.presentMode =
              IF Lists(presentModes, "VK_PRESENT_MODE_MAILBOX_KHR")
              THEN "VK_PRESENT_MODE_MAILBOX_KHR"
              ELSE "VK_PRESENT_MODE_FIFO_KHR"
        /\ presentModes = <<"VK_PRESENT_MODE_FIFO_KHR">>
              => createInfo.presentMode = "VK_PRESENT_MODE_FIFO_KHR"
        /\ presentModes = <<"VK_PRESENT_MODE_FIFO_KHR", "VK_PRESENT_MODE_MAILBOX_KHR">>
              => createInfo.presentMode = "VK_PRESENT_MODE_MAILBOX_KHR"

\* C12 witness: mailbox was chosen from a list that holds it after FIFO.
C12_Witness ==
    /\ pc = "chosen"
    /\ presentModes = <<"VK_PRESENT_MODE_FIFO_KHR", "VK_PRESENT_MODE_MAILBOX_KHR">>
    /\ createInfo.presentMode = "VK_PRESENT_MODE_MAILBOX_KHR"

\* C13: the surface format is a function of the non-empty format list alone:
\* the preferred pair (B8G8R8A8_SRGB, SRGB_NONLINEAR) if the list holds it at
\* any position, the first listed format otherwise.
C13_SurfaceFormatChosen ==
    pc = "chosen" =>
        LET chosen == [format |-> createInfo.imageFormat,
                       colorSpace |-> createInfo.imageColorSpace]
        IN  /\ chosen = IF Lists(formats, PreferredFormat)
                        THEN PreferredFormat
                        ELSE formats[1]
            /\ swapChainImageFormat = chosen.format

\* C13 witness: the preferred pair was chosen from a list whose first format
\* has the preferred format with another color space and whose last format
\* is the preferred pair.
C13_Witness ==
    /\ pc = "chosen"
    /\ Len(formats) = MaxFormats
    /\ formats[1] = [format |-> "VK_FORMAT_B8G8R8A8_SRGB",
                     colorSpace |-> "VK_COLOR_SPACE_DISPLAY_P3_NONLINEAR_EXT"]
    /\ formats[MaxFormats] = PreferredFormat
    /\ \A k \in 1 .. (MaxFormats - 1) : formats[k] # PreferredFormat
    /\ createInfo.imageColorSpace = "VK_COLOR_SPACE_SRGB_NONLINEAR_KHR"

====
